---- MODULE Spec2Model ----
(***************************************************************************)
(* Model of the task-management front end: the API client (TaskService)    *)
(* and the list controller (TaskListComponent).                            *)
(*                                                                         *)
(* JavaScript objects are functions whose domain is the set of keys that   *)
(* are present: an absent (undefined) field is a key outside the domain.   *)
(* Free-text strings of the draft (title, description) are run-length      *)
(* encoded character sequences, so that length and trim() are computed.    *)
(* The requests in flight are kept in `pending` in the order they were     *)
(* issued; a response is handled in one step (next/error, then finalize),  *)
(* because the HTTP observable emits and completes within one browser      *)
(* event, and the answered request leaves `pending`.                       *)
(***************************************************************************)
EXTENDS Integers, Sequences, FiniteSets, TLC

(***************************************************************************)
(* Bounds of the model                                                     *)
(***************************************************************************)
MaxPending == 2

(***************************************************************************)
(* TASK_CONSTANTS                                                          *)
(***************************************************************************)
PRIORITY_MIN == 1
PRIORITY_MAX == 5
PRIORITY_DEFAULT == 3
TITLE_MAX_LENGTH == 200
DESCRIPTION_MAX_LENGTH == 1000
SORT_BY == "priority"
SORT_DIRECTION == "asc"
LOAD_FAILED == "Failed to load tasks. Please try again."
CREATE_FAILED == "Failed to create task. Please try again."
UPDATE_FAILED == "Failed to update task. Please try again."
DELETE_FAILED == "Failed to delete task. Please try again."
TITLE_REQUIRED == "Title is required"
TITLE_TOO_LONG == "Title must be less than 200 characters"
DESCRIPTION_REQUIRED == "Description is required"
STATUS_REQUIRED == "Status is required"
PRIORITY_INVALID == "Priority must be between 1 and 5"
CONFIRM_DELETE == "Are you sure you want to delete this task?"

TaskStatus == {"TODO", "IN_PROGRESS", "DONE"}

(***************************************************************************)
(* Strings of the draft: a sequence of runs [ch, n] (n >= 1 copies of ch)  *)
(***************************************************************************)
Run(c, k) == IF k = 0 THEN <<>> ELSE <<[ch |-> c, n |-> k]>>

RECURSIVE length(_)
length(s) == IF s = <<>> THEN 0 ELSE Head(s).n + length(Tail(s))

IsWhitespace(c) == c = " "

RECURSIVE trimStart(_)
trimStart(s) ==
    IF s = <<>> THEN <<>>
    ELSE IF IsWhitespace(Head(s).ch) THEN trimStart(Tail(s)) ELSE s

RECURSIVE trimEnd(_)
trimEnd(s) ==
    IF s = <<>> THEN <<>>
    ELSE IF IsWhitespace(s[Len(s)].ch) THEN trimEnd(SubSeq(s, 1, Len(s) - 1)) ELSE s

trim(s) == trimEnd(trimStart(s))

\* JavaScript truthiness of a string value
Truthy(s) == s # ""

\* the same of a text kept as a sequence (of runs or of characters)
TruthyText(s) == s # <<>>

\* obj.key is present and truthy
Has(obj, key) == key \in DOMAIN obj /\ Truthy(obj[key])

(***************************************************************************)
(* Number <-> decimal text                                                 *)
(***************************************************************************)
Digits == <<"0", "1", "2", "3", "4", "5", "6", "7", "8", "9">>

\* Number.prototype.toString() of an integer
RECURSIVE toString(_)
toString(k) ==
    IF k < 0 THEN "-" \o toString(0 - k)
    ELSE IF k < 10 THEN Digits[k + 1]
    ELSE toString(k \div 10) \o Digits[(k % 10) + 1]

DigitValue(c) == CHOOSE d \in 0..9 : Digits[d + 1] = c

\* parseInt(text, 10) of a text made of decimal digits, given as a
\* sequence of one-character strings
RECURSIVE parseInt(_)
parseInt(t) ==
    IF Len(t) = 1 THEN DigitValue(t[1])
    ELSE 10 * parseInt(SubSeq(t, 1, Len(t) - 1)) + DigitValue(t[Len(t)])

(***************************************************************************)
(* HttpParams                                                              *)
(***************************************************************************)
NoParams == [k \in {} |-> ""]

Set(params, name, value) ==
    [k \in (DOMAIN params) \cup {name} |-> IF k = name THEN value ELSE params[k]]

(***************************************************************************)
(* TaskService.getAllTasks: the query parameters of the GET it issues.     *)
(* `filters` is a sequence: <<>> when called without argument, <<f>> else. *)
(***************************************************************************)
getAllTasksParamsPriorityFalsy(f, p) ==
    IF "priority" \in DOMAIN f /\ f.priority # 0
        THEN Set(p, "priority", toString(f.priority)) ELSE p

getAllTasksParamsPriority(f, p) ==
    IF "priority" \in DOMAIN f
        THEN Set(p, "priority", toString(f.priority)) ELSE p

getAllTasksParams(filters) ==
    IF filters = <<>> THEN NoParams
    ELSE
      LET f  == filters[1]
          p1 == IF Has(f, "status") THEN Set(NoParams, "status", f.status) ELSE NoParams
          p2 == getAllTasksParamsPriority(f, p1)
          p3 == IF Has(f, "dueDateFrom") THEN Set(p2, "dueDateFrom", f.dueDateFrom) ELSE p2
          p4 == IF Has(f, "dueDateTo") THEN Set(p3, "dueDateTo", f.dueDateTo) ELSE p3
          p5 == IF Has(f, "search") THEN Set(p4, "search", f.search) ELSE p4
          p6 == IF Has(f, "sortBy") THEN Set(p5, "sortBy", f.sortBy) ELSE p5
          p7 == IF Has(f, "sortDirection") THEN Set(p6, "sortDirection", f.sortDirection) ELSE p6
      IN  p7

(***************************************************************************)
(* State                                                                   *)
(***************************************************************************)
VARIABLES
    tasks, filteredTasks,
    filterStatus, filterPriority, searchQuery, dueDateFrom, dueDateTo,
    sortBy, sortDirection,
    showModal, isEditMode, currentTask,
    draftShared,    \* currentTask is the very object held in the list, not a copy
    showDetailsModal, selectedTask,
    loading, error,
    lifecycle,      \* "constructed", "initialized" (ngOnInit ran), "destroyed" (destroy$ fired)
    pending,        \* the HTTP requests in flight, in the order of issue
    handled,        \* the subscriptions the last step ended: <<>>, <<r>> answered by
                    \* a response, or those ngOnDestroy unsubscribed and whose
                    \* responses have not arrived yet
    dialogs,        \* alert()/confirm() dialogs shown by the operation that ran last
    ret,            \* <<v>>: value returned by the operation that ran last, <<>>: none
    lastOp,         \* name of the operation or response callback that ran last
    lastArgs,       \* its arguments: [id |-> <<>> or <<text>>, task |-> <<>> or <<task>>,
                    \* status |-> <<>> or <<the HTTP status a response came with>>,
                    \* arg |-> <<>> or <<the argument of a template helper>>]
    filtersArg,     \* argument of a direct TaskService.getAllTasks call
    now             \* the system clock (new Date()): milliseconds since the epoch

vars == <<tasks, filteredTasks, filterStatus, filterPriority, searchQuery,
          dueDateFrom, dueDateTo, sortBy, sortDirection, showModal, isEditMode,
          currentTask, draftShared, showDetailsModal, selectedTask, loading,
          error, lifecycle, pending, handled, dialogs, ret, lastOp, lastArgs,
          filtersArg, now>>

\* the component (and what it has sent and shown) as one value
This ==
    [tasks |-> tasks, filteredTasks |-> filteredTasks,
     filterStatus |-> filterStatus, filterPriority |-> filterPriority,
     searchQuery |-> searchQuery, dueDateFrom |-> dueDateFrom,
     dueDateTo |-> dueDateTo, sortBy |-> sortBy, sortDirection |-> sortDirection,
     showModal |-> showModal, isEditMode |-> isEditMode, currentTask |-> currentTask,
     draftShared |-> draftShared,
     showDetailsModal |-> showDetailsModal, selectedTask |-> selectedTask,
     loading |-> loading, error |-> error, lifecycle |-> lifecycle,
     pending |-> pending, handled |-> handled, dialogs |-> dialogs, ret |-> ret]

Becomes(s) ==
    /\ tasks' = s.tasks /\ filteredTasks' = s.filteredTasks
    /\ filterStatus' = s.filterStatus /\ filterPriority' = s.filterPriority
    /\ searchQuery' = s.searchQuery /\ dueDateFrom' = s.dueDateFrom
    /\ dueDateTo' = s.dueDateTo /\ sortBy' = s.sortBy
    /\ sortDirection' = s.sortDirection
    /\ showModal' = s.showModal /\ isEditMode' = s.isEditMode
    /\ currentTask' = s.currentTask /\ draftShared' = s.draftShared
    /\ showDetailsModal' = s.showDetailsModal /\ selectedTask' = s.selectedTask
    /\ loading' = s.loading /\ error' = s.error /\ lifecycle' = s.lifecycle
    /\ pending' = s.pending /\ handled' = s.handled
    /\ dialogs' = s.dialogs /\ ret' = s.ret

(***************************************************************************)
(* The HTTP requests                                                       *)
(***************************************************************************)
\* id: "" for the collection URL; body: <<>> or <<task>>;
\* overtaken: a list request issued later has already been answered
Request(method, id, body, params) ==
    [method |-> method, id |-> id, body |-> body, params |-> params,
     overtaken |-> FALSE]

IsList(r)   == r.method = "GET" /\ r.id = ""
IsCreate(r) == r.method = "POST"
IsUpdate(r) == r.method = "PUT"
IsDelete(r) == r.method = "DELETE"
IsSave(r)   == IsCreate(r) \/ IsUpdate(r)

InFlight == DOMAIN pending

\* TaskService.createTask / updateTask / deleteTask
createTaskRequest(task) == Request("POST", "", <<task>>, NoParams)
updateTaskRequest(id, task) == Request("PUT", id, <<task>>, NoParams)
deleteTaskRequest(id) == Request("DELETE", id, <<>>, NoParams)
getTaskByIdRequest(id) == Request("GET", id, <<>>, NoParams)

Issue(s, r) == [s EXCEPT !.pending = Append(@, r)]

alert(s, msg) == [s EXCEPT !.dialogs = Append(@, [kind |-> "alert", msg |-> msg])]

(***************************************************************************)
(* TaskListComponent                                                       *)
(***************************************************************************)
getEmptyTask ==
    [title |-> <<>>, description |-> <<>>, status |-> "TODO",
     priority |-> PRIORITY_DEFAULT, dueDate |-> ""]

buildFilterParamsDueDateFromTwice(s) ==
    LET f0 == NoParams
        f1 == IF Truthy(s.filterStatus) THEN Set(f0, "status", s.filterStatus) ELSE f0
        f2 == IF TruthyText(s.filterPriority)
                THEN Set(f1, "priority", parseInt(s.filterPriority)) ELSE f1
        f3 == IF Truthy(s.searchQuery) THEN Set(f2, "search", s.searchQuery) ELSE f2
        f4 == IF Truthy(s.dueDateFrom) THEN Set(f3, "dueDateFrom", s.dueDateFrom) ELSE f3
        f5 == IF Truthy(s.dueDateFrom) THEN Set(f4, "dueDateTo", s.dueDateFrom) ELSE f4
        f6 == IF Truthy(s.sortBy) THEN Set(f5, "sortBy", s.sortBy) ELSE f5
        f7 == IF Truthy(s.sortDirection) THEN Set(f6, "sortDirection", s.sortDirection) ELSE f6
    IN  f7

buildFilterParams(s) ==
    LET f0 == NoParams
        f1 == IF Truthy(s.filterStatus) THEN Set(f0, "status", s.filterStatus) ELSE f0
        f2 == IF TruthyText(s.filterPriority)
                THEN Set(f1, "priority", parseInt(s.filterPriority)) ELSE f1
        f3 == IF Truthy(s.searchQuery) THEN Set(f2, "search", s.searchQuery) ELSE f2
        f4 == IF Truthy(s.dueDateFrom) THEN Set(f3, "dueDateFrom", s.dueDateFrom) ELSE f3
        f5 == IF Truthy(s.dueDateTo) THEN Set(f4, "dueDateTo", s.dueDateTo) ELSE f4
        f6 == IF Truthy(s.sortBy) THEN Set(f5, "sortBy", s.sortBy) ELSE f5
        f7 == IF Truthy(s.sortDirection) THEN Set(f6, "sortDirection", s.sortDirection) ELSE f6
    IN  f7

\* finalize(() => this.loading = false)
finalizeUnlessInFlight(s) ==
    IF s.pending # <<>> THEN s ELSE [s EXCEPT !.loading = FALSE]

finalizeOnlyOnSuccess(s) ==
    IF s.handled # <<>> /\ s.handled[1].outcome = "error"
        THEN s
        ELSE [s EXCEPT !.loading = FALSE]

finalize(s) == [s EXCEPT !.loading = FALSE]

\* loadTasks() up to the subscription
\* (s1, the component after the two assignments, is computed once)
loadTasks(s) ==
    CHOOSE after \in
        { Issue(s1, Request("GET", "", <<>>, getAllTasksParams(<<buildFilterParams(s1)>>))) :
            s1 \in {[s EXCEPT !.loading = TRUE, !.error = ""]} } : TRUE

\* subscribe callbacks of loadTasks
loadTasksNextClearsError(s, data) ==
    [s EXCEPT !.tasks = data, !.filteredTasks = data, !.error = ""]

loadTasksNextDropsStale(s, data) ==
    IF s.handled[1].request.overtaken
        THEN s
        ELSE [s EXCEPT !.tasks = data, !.filteredTasks = data]

loadTasksNextClearsLoadError(s, data) ==
    [s EXCEPT !.tasks = data, !.filteredTasks = data, !.draftShared = FALSE,
              !.error = IF @ = LOAD_FAILED THEN "" ELSE @]

\* both fields get the array of the response; the objects of the array
\* held before are no longer in the list
loadTasksNext(s, data) ==
    [s EXCEPT !.tasks = data, !.filteredTasks = data, !.draftShared = FALSE]

loadTasksErrorClearsList(s) ==
    [s EXCEPT !.error = LOAD_FAILED, !.tasks = <<>>, !.filteredTasks = <<>>]

loadTasksError(s) == [s EXCEPT !.error = LOAD_FAILED]

applyFilters(s) == loadTasks(s)

clearFiltersKeepsSort(s) ==
    loadTasks([s EXCEPT !.filterStatus = "", !.filterPriority = <<>>,
                        !.searchQuery = "", !.dueDateFrom = "", !.dueDateTo = ""])

clearFilters(s) ==
    loadTasks([s EXCEPT !.filterStatus = "", !.filterPriority = <<>>,
                        !.searchQuery = "", !.dueDateFrom = "", !.dueDateTo = "",
                        !.sortBy = SORT_BY, !.sortDirection = SORT_DIRECTION])

closeModalResetsEditMode(s) ==
    [s EXCEPT !.showModal = FALSE, !.isEditMode = FALSE, !.currentTask = getEmptyTask,
              !.draftShared = FALSE, !.error = ""]

closeModal(s) ==
    [s EXCEPT !.showModal = FALSE, !.currentTask = getEmptyTask,
              !.draftShared = FALSE, !.error = ""]

openCreateModalKeepsDraft(s) ==
    [s EXCEPT !.isEditMode = FALSE, !.showModal = TRUE]

openCreateModal(s) ==
    [s EXCEPT !.isEditMode = FALSE, !.currentTask = getEmptyTask,
              !.draftShared = FALSE, !.showModal = TRUE]

\* this.currentTask = task, without the spread
openEditModalNoCopy(s, task) ==
    [s EXCEPT !.isEditMode = TRUE, !.currentTask = task, !.draftShared = TRUE,
              !.showModal = TRUE]

\* { ...task }: a new object with the fields of task
openEditModal(s, task) ==
    [s EXCEPT !.isEditMode = TRUE, !.currentTask = task, !.draftShared = FALSE,
              !.showModal = TRUE]

\* currentTask.field = v: the object currentTask refers to is changed, and
\* with it the list (tasks and filteredTasks are one array) when it holds
\* that object
setDraftField(s, field, v) ==
    LET old == s.currentTask
        new == [old EXCEPT ![field] = v]
        inList(q) == [i \in DOMAIN q |-> IF q[i] = old THEN new ELSE q[i]]
    IN  IF s.draftShared
            THEN [s EXCEPT !.currentTask = new, !.tasks = inList(@),
                           !.filteredTasks = inList(@)]
            ELSE [s EXCEPT !.currentTask = new]

\* validateTask(): the alert it shows (if any) and the value it returns
validateTaskNoShortCircuit(s) ==
    LET t  == s.currentTask
        m1 == IF ~ TruthyText(trim(t.title)) THEN <<TITLE_REQUIRED>> ELSE <<>>
        m2 == IF length(t.title) > TITLE_MAX_LENGTH THEN <<TITLE_TOO_LONG>> ELSE <<>>
        m3 == IF ~ TruthyText(trim(t.description)) THEN <<DESCRIPTION_REQUIRED>> ELSE <<>>
        m4 == IF ~ Truthy(t.status) THEN <<STATUS_REQUIRED>> ELSE <<>>
        m5 == IF t.priority = 0 \/ t.priority < PRIORITY_MIN \/ t.priority > PRIORITY_MAX
                THEN <<PRIORITY_INVALID>> ELSE <<>>
        ms == m1 \o m2 \o m3 \o m4 \o m5
    IN  [s EXCEPT !.dialogs = @ \o [i \in DOMAIN ms |-> [kind |-> "alert", msg |-> ms[i]]],
                  !.ret = <<ms = <<>> >>]

validateTaskOffByOne(s) ==
    LET t == s.currentTask
        title == t.title
        description == t.description
        status == t.status
        priority == t.priority
    IN  IF ~ TruthyText(trim(title))
            THEN [alert(s, TITLE_REQUIRED) EXCEPT !.ret = <<FALSE>>]
        ELSE IF length(title) >= TITLE_MAX_LENGTH
            THEN [alert(s, TITLE_TOO_LONG) EXCEPT !.ret = <<FALSE>>]
        ELSE IF ~ TruthyText(trim(description))
            THEN [alert(s, DESCRIPTION_REQUIRED) EXCEPT !.ret = <<FALSE>>]
        ELSE IF ~ Truthy(status)
            THEN [alert(s, STATUS_REQUIRED) EXCEPT !.ret = <<FALSE>>]
        ELSE IF priority = 0 \/ priority < PRIORITY_MIN \/ priority > PRIORITY_MAX
            THEN [alert(s, PRIORITY_INVALID) EXCEPT !.ret = <<FALSE>>]
        ELSE [s EXCEPT !.ret = <<TRUE>>]

validateTask(s) ==
    LET t == s.currentTask
        title == t.title
        description == t.description
        status == t.status
        priority == t.priority
    IN  IF ~ TruthyText(trim(title))
            THEN [alert(s, TITLE_REQUIRED) EXCEPT !.ret = <<FALSE>>]
        ELSE IF length(title) > TITLE_MAX_LENGTH
            THEN [alert(s, TITLE_TOO_LONG) EXCEPT !.ret = <<FALSE>>]
        ELSE IF ~ TruthyText(trim(description))
            THEN [alert(s, DESCRIPTION_REQUIRED) EXCEPT !.ret = <<FALSE>>]
        ELSE IF ~ Truthy(status)
            THEN [alert(s, STATUS_REQUIRED) EXCEPT !.ret = <<FALSE>>]
        ELSE IF priority = 0 \/ priority < PRIORITY_MIN \/ priority > PRIORITY_MAX
            THEN [alert(s, PRIORITY_INVALID) EXCEPT !.ret = <<FALSE>>]
        ELSE [s EXCEPT !.ret = <<TRUE>>]

\* the ternary of saveTask(): which request it dispatches
saveOperationByFlagOnly(s) ==
    IF s.isEditMode
        THEN updateTaskRequest(IF "id" \in DOMAIN s.currentTask THEN s.currentTask.id
                                                                ELSE "undefined",
                               s.currentTask)
        ELSE createTaskRequest(s.currentTask)

saveOperation(s) ==
    IF s.isEditMode /\ Has(s.currentTask, "id")
        THEN updateTaskRequest(s.currentTask.id, s.currentTask)
        ELSE createTaskRequest(s.currentTask)

\* saveTask() up to the subscription; it returns nothing
saveTaskSkipsWhenSaving(s) ==
    LET v == validateTask(s)
    IN  IF v.ret = <<FALSE>> \/ \E i \in DOMAIN s.pending : IsSave(s.pending[i])
            THEN [v EXCEPT !.ret = <<>>]
            ELSE LET s1 == [v EXCEPT !.ret = <<>>, !.loading = TRUE]
                 IN  Issue(s1, saveOperation(s1))

saveTaskLoadingFirst(s) ==
    LET v == validateTask([s EXCEPT !.loading = TRUE])
    IN  IF v.ret = <<FALSE>>
            THEN [v EXCEPT !.ret = <<>>]
            ELSE LET s1 == [v EXCEPT !.ret = <<>>]
                 IN  Issue(s1, saveOperation(s1))

saveTask(s) ==
    LET v == validateTask(s)
    IN  IF v.ret = <<FALSE>>
            THEN [v EXCEPT !.ret = <<>>]
            ELSE LET s1 == [v EXCEPT !.ret = <<>>, !.loading = TRUE]
                 IN  Issue(s1, saveOperation(s1))

\* subscribe callbacks of saveTask
saveTaskNextKeepsNewerDraft(s) ==
    IF s.handled[1].newer THEN loadTasks(s) ELSE closeModal(loadTasks(s))

saveTaskNextNoReload(s) == closeModal(s)

saveTaskNext(s) == closeModal(loadTasks(s))

saveTaskErrorRetries(s) ==
    Issue([s EXCEPT !.error = IF s.isEditMode THEN UPDATE_FAILED ELSE CREATE_FAILED],
          s.handled[1].request)

saveTaskError(s) ==
    [s EXCEPT !.error = IF s.isEditMode THEN UPDATE_FAILED ELSE CREATE_FAILED]

\* deleteTask(id) up to the subscription; id is <<>> (undefined) or <<text>>
deleteTaskLoadingBeforeConfirm(s, id, confirmed) ==
    IF id = <<>> \/ ~ Truthy(id[1]) THEN s
    ELSE LET s1 == [s EXCEPT !.loading = TRUE,
                             !.dialogs = Append(@, [kind |-> "confirm", msg |-> CONFIRM_DELETE,
                                                    answer |-> confirmed])]
         IN  IF ~ confirmed THEN s1
             ELSE Issue(s1, deleteTaskRequest(id[1]))

deleteTask(s, id, confirmed) ==
    IF id = <<>> \/ ~ Truthy(id[1]) THEN s
    ELSE LET s1 == [s EXCEPT !.dialogs = Append(@, [kind |-> "confirm", msg |-> CONFIRM_DELETE,
                                                    answer |-> confirmed])]
         IN  IF ~ confirmed THEN s1
             ELSE Issue([s1 EXCEPT !.loading = TRUE], deleteTaskRequest(id[1]))

\* subscribe callbacks of deleteTask
deleteTaskNextNoReload(s) == s

deleteTaskNext(s) == loadTasks(s)

deleteTaskError(s) == [s EXCEPT !.error = DELETE_FAILED]

viewTaskDetails(s, task) ==
    [s EXCEPT !.selectedTask = <<task>>, !.showDetailsModal = TRUE]

closeDetailsModalKeepsSelection(s) == [s EXCEPT !.showDetailsModal = FALSE]

closeDetailsModal(s) ==
    [s EXCEPT !.showDetailsModal = FALSE, !.selectedTask = <<>>]

\* `${n}` for a number n >= 0 without fraction: its decimal digits
RECURSIVE NumberText(_)
NumberText(n) ==
    LET digit == <<"0", "1", "2", "3", "4", "5", "6", "7", "8", "9">>
    IN  IF n < 10 THEN digit[n + 1]
        ELSE NumberText(n \div 10) \o digit[(n % 10) + 1]

\* Date.prototype.toLocaleDateString of the instant ms: the text of its
\* calendar day (numbered from the epoch; the locale's notation and the
\* time zone are the environment's)
toLocaleDateString(ms) == "day " \o NumberText(ms \div 86400000)

getTimeAgoJustNowAtSixty(s, date) ==
    IF date = <<>> THEN [s EXCEPT !.ret = <<"Invalid Date">>]
    ELSE
    LET past == date[1]
        diffInSeconds == (now - past) \div 1000
    IN  [s EXCEPT !.ret = <<
            IF diffInSeconds <= 60 THEN "Just now"
            ELSE IF diffInSeconds < 3600
                THEN NumberText(diffInSeconds \div 60) \o "m ago"
            ELSE IF diffInSeconds < 86400
                THEN NumberText(diffInSeconds \div 3600) \o "h ago"
            ELSE IF diffInSeconds < 604800
                THEN NumberText(diffInSeconds \div 86400) \o "d ago"
            ELSE toLocaleDateString(past)>>]

\* getTimeAgo(date): date is <<ms>>, the instant the text denotes, or <<>>
\* for a text new Date() cannot parse; then getTime() is NaN, every
\* comparison is false and toLocaleDateString() gives 'Invalid Date'.
\* \div rounds down like Math.floor, also below zero
getTimeAgo(s, date) ==
    IF date = <<>> THEN [s EXCEPT !.ret = <<"Invalid Date">>]
    ELSE
    LET past == date[1]
        diffInSeconds == (now - past) \div 1000
    IN  [s EXCEPT !.ret = <<
            IF diffInSeconds < 60 THEN "Just now"
            ELSE IF diffInSeconds < 3600
                THEN NumberText(diffInSeconds \div 60) \o "m ago"
            ELSE IF diffInSeconds < 86400
                THEN NumberText(diffInSeconds \div 3600) \o "h ago"
            ELSE IF diffInSeconds < 604800
                THEN NumberText(diffInSeconds \div 86400) \o "d ago"
            ELSE toLocaleDateString(past)>>]

getTaskCountByStatusOfAll(s, status) == [s EXCEPT !.ret = <<Len(s.filteredTasks)>>]

\* the number of tasks of filteredTasks whose status is the given text
getTaskCountByStatus(s, status) ==
    [s EXCEPT !.ret = <<Cardinality({i \in DOMAIN s.filteredTasks :
                                        s.filteredTasks[i].status = status})>>]

\* ngOnDestroy(): destroy$ fires, takeUntil unsubscribes every pending
\* request (the XHR is aborted) and each finalize callback runs
ngOnDestroyKeepsSubscriptions(s) == [s EXCEPT !.lifecycle = "destroyed"]

ngOnDestroy(s) ==
    LET torn == [i \in DOMAIN s.pending |->
                    [request |-> s.pending[i], outcome |-> "unsubscribed", data |-> <<>>,
                     newer |-> FALSE]]
        s1 == [s EXCEPT !.lifecycle = "destroyed", !.pending = <<>>, !.handled = torn]
    IN  IF s.pending = <<>> THEN s1 ELSE finalize(s1)

(***************************************************************************)
(* Inputs                                                                  *)
(***************************************************************************)
\* a task as the backend returns it (ids are assigned by the backend)
Task1 ==
    [id |-> "1", title |-> Run("a", 5), description |-> Run("d", 5),
     status |-> "TODO", priority |-> 1, dueDate |-> "2025-12-31"]

\* the lists the backend answers a list request with
ServerLists == {<<>>, <<Task1>>}

Range(q) == {q[i] : i \in DOMAIN q}

\* what the user types into the form of the modal
FormTitles == {Run("a", 5)}
FormDescriptions == {Run("d", 5), Run("d", DESCRIPTION_MAX_LENGTH + 1)}

\* the wider inputs of the validation runs
AllTitles ==
    {<<>>, Run(" ", 3), Run("a", 1), Run(" ", 1) \o Run("a", 1) \o Run(" ", 1),
     Run("a", TITLE_MAX_LENGTH - 1), Run("a", TITLE_MAX_LENGTH),
     Run("a", TITLE_MAX_LENGTH + 1),
     Run("a", TITLE_MAX_LENGTH - 1) \o Run(" ", 2), Run(" ", TITLE_MAX_LENGTH + 1)}
AllDescriptions ==
    {<<>>, Run(" ", 2), Run("d", 1), Run(" ", 1) \o Run("d", 1),
     Run("d", DESCRIPTION_MAX_LENGTH), Run("d", DESCRIPTION_MAX_LENGTH + 1)}
AllStatuses == TaskStatus \cup {""}
AllPriorities == {-1, 0, 1, 3, 5, 6, 10}

(***************************************************************************)
(* Initial state: the field initialisers of the component                  *)
(***************************************************************************)
InitComponent ==
    /\ tasks = <<>> /\ filteredTasks = <<>>
    /\ filterStatus = "" /\ filterPriority = <<>> /\ searchQuery = ""
    /\ dueDateFrom = "" /\ dueDateTo = ""
    /\ sortBy = SORT_BY /\ sortDirection = SORT_DIRECTION
    /\ showModal = FALSE /\ isEditMode = FALSE /\ currentTask = getEmptyTask
    /\ draftShared = FALSE
    /\ showDetailsModal = FALSE /\ selectedTask = <<>>
    /\ loading = FALSE /\ error = ""
    /\ lifecycle = "constructed"
    /\ pending = <<>> /\ handled = <<>> /\ dialogs = <<>> /\ ret = <<>>
    /\ lastOp = "constructor" /\ lastArgs = [id |-> <<>>, task |-> <<>>, status |-> <<>>, arg |-> <<>>]

\* an instant of the clock, in milliseconds
Now0 == 1300000000

Init == InitComponent /\ filtersArg = <<>> /\ now = Now0

(***************************************************************************)
(* Steps                                                                   *)
(***************************************************************************)
\* the component when an operation is entered: nothing shown or returned yet
Start == [This EXCEPT !.handled = <<>>, !.dialogs = <<>>, !.ret = <<>>]

\* (s, the component after the operation, is computed once)
OpWith(name, args, s) ==
    /\ lastOp' = name /\ lastArgs' = args
    /\ \E after \in {s} : Becomes(after)
    /\ UNCHANGED <<filtersArg, now>>

NoArgs == [id |-> <<>>, task |-> <<>>, status |-> <<>>, arg |-> <<>>]

Op(name, s) == OpWith(name, NoArgs, s)

\* the template is live between ngOnInit and ngOnDestroy
Active == lifecycle = "initialized"

\* one more request may be put in flight
Room == Len(pending) < MaxPending

Remove(q, i) == SubSeq(q, 1, i - 1) \o SubSeq(q, i + 1, Len(q))

\* the response to pending[i] arrives: the request leaves `pending`; a
\* list response marks the list requests issued before it as overtaken;
\* newer: the response to a save finds the modal open on another draft
\* than the one the request carried
Answer(s, i, outcome, data) ==
    LET r == s.pending[i]
        q == [j \in DOMAIN s.pending |->
                IF j < i /\ IsList(r) /\ IsList(s.pending[j])
                    THEN [s.pending[j] EXCEPT !.overtaken = TRUE] ELSE s.pending[j]]
    IN  [s EXCEPT !.pending = Remove(q, i),
                  !.handled = <<[request |-> r, outcome |-> outcome, data |-> data,
                                 newer |-> /\ IsSave(r) /\ s.showModal
                                           /\ s.currentTask # r.body[1]]>>]

NgOnInit ==
    /\ lifecycle = "constructed"
    /\ Op("ngOnInit", loadTasks([Start EXCEPT !.lifecycle = "initialized"]))

NgOnDestroy ==
    /\ Active
    /\ Op("ngOnDestroy", ngOnDestroy(Start))

\* the backend answers a request whose subscription takeUntil(destroy$) has
\* ended: no callback of the component is subscribed any more
ResponseAfterDestroy(i) ==
    /\ lifecycle = "destroyed"
    /\ i \in DOMAIN handled /\ handled[i].outcome = "unsubscribed"
    /\ Op("response.unsubscribed", [Start EXCEPT !.handled = Remove(handled, i)])

LoadTasks ==
    /\ Active /\ Room
    /\ Op("loadTasks", loadTasks(Start))

LoadTasksNext(i, data) ==
    /\ i \in InFlight /\ IsList(pending[i])
    /\ Op("loadTasks.next", finalize(loadTasksNext(Answer(Start, i, "ok", data), data)))

LoadTasksError(i) ==
    /\ i \in InFlight /\ IsList(pending[i])
    /\ Op("loadTasks.error", finalize(loadTasksError(Answer(Start, i, "error", <<>>))))

OpenCreateModal ==
    /\ Active
    /\ Op("openCreateModal", openCreateModal(Start))

OpenEditModal(task) ==
    /\ Active
    /\ OpWith("openEditModal", [NoArgs EXCEPT !.task = <<task>>], openEditModal(Start, task))

CloseModal ==
    /\ Active
    /\ Op("closeModal", closeModal(Start))

\* two-way bindings of the form: the user edits one field of the draft
SetTitle(v) ==
    /\ Active /\ currentTask.title # v
    /\ Op("currentTask.title", setDraftField(Start, "title", v))

SetDescription(v) ==
    /\ Active /\ currentTask.description # v
    /\ Op("currentTask.description", setDraftField(Start, "description", v))

SetStatus(v) ==
    /\ Active /\ currentTask.status # v
    /\ Op("currentTask.status", setDraftField(Start, "status", v))

SetPriority(v) ==
    /\ Active /\ currentTask.priority # v
    /\ Op("currentTask.priority", setDraftField(Start, "priority", v))

ValidateTask ==
    /\ Active
    /\ Op("validateTask", validateTask(Start))

SaveTask ==
    /\ Active
    /\ validateTask(Start).ret = <<TRUE>> => Room
    /\ Op("saveTask", saveTask(Start))

SaveTaskNext(i) ==
    /\ i \in InFlight /\ IsSave(pending[i])
    /\ Op("saveTask.next", finalize(saveTaskNext(Answer(Start, i, "ok", <<>>))))

SaveTaskError(i) ==
    /\ i \in InFlight /\ IsSave(pending[i])
    /\ Op("saveTask.error", finalize(saveTaskError(Answer(Start, i, "error", <<>>))))

DeleteTask(id, confirmed) ==
    /\ Active
    /\ (id # <<>> /\ confirmed) => Room
    /\ OpWith("deleteTask", [NoArgs EXCEPT !.id = id], deleteTask(Start, id, confirmed))

DeleteTaskNext(i) ==
    /\ i \in InFlight /\ IsDelete(pending[i])
    /\ Op("deleteTask.next", finalize(deleteTaskNext(Answer(Start, i, "ok", <<>>))))

DeleteTaskError(i) ==
    /\ i \in InFlight /\ IsDelete(pending[i])
    /\ Op("deleteTask.error", finalize(deleteTaskError(Answer(Start, i, "error", <<>>))))

Next ==
    \/ NgOnInit
    \/ NgOnDestroy
    \/ \E i \in DOMAIN handled : ResponseAfterDestroy(i)
    \/ LoadTasks
    \/ \E i \in DOMAIN pending, data \in ServerLists : LoadTasksNext(i, data)
    \/ \E i \in DOMAIN pending : LoadTasksError(i)
    \/ OpenCreateModal
    \/ \E task \in Range(filteredTasks) : OpenEditModal(task)
    \/ CloseModal
    \/ \E v \in FormTitles : SetTitle(v)
    \/ \E v \in FormDescriptions : SetDescription(v)
    \/ SaveTask
    \/ \E i \in DOMAIN pending : SaveTaskNext(i)
    \/ \E i \in DOMAIN pending : SaveTaskError(i)
    \/ \E id \in {<<>>} \cup {<<t.id>> : t \in Range(filteredTasks)}, confirmed \in BOOLEAN :
          DeleteTask(id, confirmed)
    \/ \E i \in DOMAIN pending : DeleteTaskNext(i)
    \/ \E i \in DOMAIN pending : DeleteTaskError(i)

Spec == Init /\ [][Next]_vars

(***************************************************************************)
(* Runs in which the backend answers: HttpClient completes or fails every  *)
(* request it was given, so a response callback that can run does run.     *)
(* The draft is the empty draft or the copy of a task of the list.         *)
(***************************************************************************)
Respond ==
    \/ \E i \in DOMAIN pending, data \in ServerLists : LoadTasksNext(i, data)
    \/ \E i \in DOMAIN pending : LoadTasksError(i)
    \/ \E i \in DOMAIN pending : SaveTaskNext(i)
    \/ \E i \in DOMAIN pending : SaveTaskError(i)
    \/ \E i \in DOMAIN pending : DeleteTaskNext(i)
    \/ \E i \in DOMAIN pending : DeleteTaskError(i)

\* a step taken by the user or by the framework on the user's navigation
UserStep ==
    \/ NgOnInit
    \/ NgOnDestroy
    \/ LoadTasks
    \/ OpenCreateModal
    \/ \E task \in Range(filteredTasks) : OpenEditModal(task)
    \/ CloseModal
    \/ SaveTask
    \/ \E id \in {<<>>} \cup {<<t.id>> : t \in Range(filteredTasks)}, confirmed \in BOOLEAN :
          DeleteTask(id, confirmed)

NextLive ==
    \/ UserStep
    \/ Respond
    \/ \E i \in DOMAIN handled : ResponseAfterDestroy(i)

SpecLive == Init /\ [][NextLive]_vars /\ WF_vars(Respond)

(***************************************************************************)
(* Validation runs: the form fields range over the wider inputs and        *)
(* validateTask() is called on its own                                     *)
(***************************************************************************)
NextValidate ==
    \/ NgOnInit
    \/ \E v \in AllTitles : SetTitle(v)
    \/ \E v \in AllDescriptions : SetDescription(v)
    \/ \E v \in AllStatuses : SetStatus(v)
    \/ \E v \in AllPriorities : SetPriority(v)
    \/ ValidateTask

SpecValidate == Init /\ [][NextValidate]_vars

(***************************************************************************)
(* API client runs: TaskService.getAllTasks is called directly with a      *)
(* filter object, or without one                                           *)
(***************************************************************************)
Optional(values) == {<<>>} \cup {<<v>> : v \in values}

\* the object with the given optional fields
Object(status, priority, from, to, search, by, direction) ==
    LET o1 == IF status = <<>> THEN NoParams ELSE Set(NoParams, "status", status[1])
        o2 == IF priority = <<>> THEN o1 ELSE Set(o1, "priority", priority[1])
        o3 == IF from = <<>> THEN o2 ELSE Set(o2, "dueDateFrom", from[1])
        o4 == IF to = <<>> THEN o3 ELSE Set(o3, "dueDateTo", to[1])
        o5 == IF search = <<>> THEN o4 ELSE Set(o4, "search", search[1])
        o6 == IF by = <<>> THEN o5 ELSE Set(o5, "sortBy", by[1])
        o7 == IF direction = <<>> THEN o6 ELSE Set(o6, "sortDirection", direction[1])
    IN  o7

FilterObjects ==
    {Object(st, pr, fr, to, se, by, di) :
        st \in Optional({"", "TODO"}), pr \in Optional({0, 1, 12}),
        fr \in Optional({"", "2025-01-01"}), to \in Optional({"", "2025-12-31"}),
        se \in Optional({"", "urgent"}), by \in Optional({"", "priority"}),
        di \in Optional({"", "asc"})}

InitParams == InitComponent /\ filtersArg \in Optional(FilterObjects) /\ now = Now0

GetAllTasks ==
    /\ pending = <<>>
    /\ pending' = <<Request("GET", "", <<>>, getAllTasksParams(filtersArg))>>
    /\ lastOp' = "TaskService.getAllTasks"
    /\ lastArgs' = lastArgs
    /\ UNCHANGED <<tasks, filteredTasks, filterStatus, filterPriority, searchQuery,
                   dueDateFrom, dueDateTo, sortBy, sortDirection, showModal,
                   isEditMode, currentTask, draftShared, showDetailsModal,
                   selectedTask, loading, error, lifecycle, handled, dialogs, ret,
                   filtersArg, now>>

NextParams == GetAllTasks

SpecParams == InitParams /\ [][NextParams]_vars

(***************************************************************************)
(* The status counters of the template: the backend answers the list       *)
(* requests with collections of up to three tasks, and the template asks   *)
(* for the count of a status                                               *)
(***************************************************************************)
Task2 ==
    [id |-> "2", title |-> Run("b", 5), description |-> Run("d", 5),
     status |-> "IN_PROGRESS", priority |-> 2, dueDate |-> "2025-11-30"]

Task3 ==
    [id |-> "3", title |-> Run("c", 5), description |-> Run("d", 5),
     status |-> "DONE", priority |-> 3, dueDate |-> "2025-10-15"]

\* a task whose status is none of the enum (the backend is free to send one)
Task4 ==
    [id |-> "4", title |-> Run("e", 5), description |-> Run("d", 5),
     status |-> "ARCHIVED", priority |-> 3, dueDate |-> "2025-10-15"]

mockTasks == <<Task1, Task2, Task3>>

CountedLists ==
    {<<>>, <<Task1>>, <<Task2, Task1>>, mockTasks, <<Task1, Task3, Task1>>,
     <<Task3, Task3>>, <<Task2, Task4>>, <<Task4, Task1, Task2>>}

CountedStatuses == TaskStatus \cup {"", "ARCHIVED"}

GetTaskCountByStatus(status) ==
    /\ Active
    /\ OpWith("getTaskCountByStatus", [NoArgs EXCEPT !.arg = <<status>>],
              getTaskCountByStatus(Start, status))

NextCounts ==
    \/ NgOnInit
    \/ LoadTasks
    \/ \E i \in DOMAIN pending, data \in CountedLists : LoadTasksNext(i, data)
    \/ \E i \in DOMAIN pending : LoadTasksError(i)
    \/ \E status \in CountedStatuses : GetTaskCountByStatus(status)

SpecCounts == Init /\ [][NextCounts]_vars

(***************************************************************************)
(* The relative times of the template: getTimeAgo is called at some        *)
(* instant with the text of an instant around one of its thresholds        *)
(***************************************************************************)
Instants == {Now0, Now0 + 1, Now0 + 999}

\* ages in whole seconds: in the future, around 60, 3600, 86400 and 604800
Ages ==
    {-3600, -1, 0, 1, 59, 60, 61, 119, 120, 300, 3599, 3600, 3601, 7199, 7200,
     86399, 86400, 86401, 172799, 172800, 604799, 604800, 604801, 1209600}

\* the milliseconds beyond the whole seconds
Millis == {0, 1, 999}

Dates(t) == {<<>>} \cup {<<t - (age * 1000) - ms>> : age \in Ages, ms \in Millis}

InitTimeAgo == InitComponent /\ filtersArg = <<>> /\ now \in Instants

GetTimeAgo(date) ==
    OpWith("getTimeAgo", [NoArgs EXCEPT !.arg = <<date>>], getTimeAgo(Start, date))

NextTimeAgo == \E date \in Dates(now) : GetTimeAgo(date)

SpecTimeAgo == InitTimeAgo /\ [][NextTimeAgo]_vars

(***************************************************************************)
(* API client runs with responses: a caller invokes the five methods,      *)
(* subscribes to what they return, and the backend answers with a status   *)
(***************************************************************************)
\* the requests of the calls the callers make
ServiceCalls ==
    {Request("GET", "", <<>>, getAllTasksParams(f)) :
        f \in {<<>>, <<[status |-> "TODO", priority |-> 1]>>}}
    \cup {getTaskByIdRequest(id) : id \in {"1", "invalid-id"}}
    \cup {createTaskRequest([getEmptyTask EXCEPT !.title = Run("a", 5),
                                                 !.description = Run("d", 5)])}
    \cup {updateTaskRequest("1", Task1)}
    \cup {deleteTaskRequest("1")}

HttpStatuses == {200, 404, 500}

\* HttpClient: a 2xx response is emitted as a value, any other status fails
\* the observable with that status
HttpNotification(status) ==
    [kind |-> IF status \in 200..299 THEN "next" ELSE "error", status |-> status]

\* what a method returns is the HttpClient observable itself: the response
\* to q[i] ends that request and the subscriber gets HttpClient's notification
serviceObservableRetries(q, i, status) ==
    IF status \in 200..299
        THEN [pending |-> Remove(q, i), ret |-> <<HttpNotification(status)>>]
        ELSE [pending |-> Append(Remove(q, i), q[i]), ret |-> <<>>]

serviceObservable(q, i, status) ==
    [pending |-> Remove(q, i), ret |-> <<HttpNotification(status)>>]

ComponentUntouched ==
    UNCHANGED <<tasks, filteredTasks, filterStatus, filterPriority, searchQuery,
                dueDateFrom, dueDateTo, sortBy, sortDirection, showModal,
                isEditMode, currentTask, draftShared, showDetailsModal,
                selectedTask, loading, error, lifecycle, dialogs, filtersArg, now>>

ServiceCall(r) ==
    /\ Room
    /\ pending' = Append(pending, r)
    /\ handled' = <<>> /\ ret' = <<>>
    /\ lastOp' = "TaskService.call" /\ lastArgs' = NoArgs
    /\ ComponentUntouched

HttpResponse(i, status) ==
    /\ i \in DOMAIN pending
    /\ \E after \in {serviceObservable(pending, i, status)} :
          pending' = after.pending /\ ret' = after.ret
    /\ handled' = <<[request |-> pending[i],
                     outcome |-> IF status \in 200..299 THEN "ok" ELSE "error",
                     data |-> <<>>, newer |-> FALSE]>>
    /\ lastOp' = "TaskService.response"
    /\ lastArgs' = [NoArgs EXCEPT !.status = <<status>>]
    /\ ComponentUntouched

NextService ==
    \/ \E r \in ServiceCalls : ServiceCall(r)
    \/ \E i \in DOMAIN pending, status \in HttpStatuses : HttpResponse(i, status)

SpecService == Init /\ [][NextService]_vars

(***************************************************************************)
(* Filter runs: the user fills the filter panel, applies and clears it     *)
(***************************************************************************)
\* the filter fields of the component
FilterState(s) ==
    [filterStatus |-> s.filterStatus, filterPriority |-> s.filterPriority,
     searchQuery |-> s.searchQuery, dueDateFrom |-> s.dueDateFrom,
     dueDateTo |-> s.dueDateTo, sortBy |-> s.sortBy,
     sortDirection |-> s.sortDirection]

\* the filter fields as the field initialisers and clearFilters() set them
DefaultFilters ==
    [filterStatus |-> "", filterPriority |-> <<>>, searchQuery |-> "",
     dueDateFrom |-> "", dueDateTo |-> "", sortBy |-> SORT_BY,
     sortDirection |-> SORT_DIRECTION]

\* contents the user gives the filter panel: each field alone, and all
FilterForms ==
    { DefaultFilters,
      [DefaultFilters EXCEPT !.filterStatus = "DONE"],
      [DefaultFilters EXCEPT !.filterPriority = <<"1", "0">>],
      [DefaultFilters EXCEPT !.filterPriority = <<"0">>],
      [DefaultFilters EXCEPT !.searchQuery = "urgent"],
      [DefaultFilters EXCEPT !.dueDateFrom = "2025-01-01"],
      [DefaultFilters EXCEPT !.dueDateTo = "2025-12-31"],
      [DefaultFilters EXCEPT !.sortBy = "dueDate"],
      [DefaultFilters EXCEPT !.sortDirection = "desc"],
      [filterStatus |-> "TODO", filterPriority |-> <<"1">>, searchQuery |-> "test",
       dueDateFrom |-> "2025-01-01", dueDateTo |-> "2025-12-31",
       sortBy |-> "title", sortDirection |-> "desc"] }

\* two-way bindings of the filter panel: the user leaves the panel as f
SetFilters(f) ==
    /\ Active /\ FilterState(This) # f
    /\ Op("filters",
              [Start EXCEPT !.filterStatus = f.filterStatus,
                            !.filterPriority = f.filterPriority,
                            !.searchQuery = f.searchQuery,
                            !.dueDateFrom = f.dueDateFrom,
                            !.dueDateTo = f.dueDateTo,
                            !.sortBy = f.sortBy,
                            !.sortDirection = f.sortDirection])

ApplyFilters ==
    /\ Active /\ Room
    /\ Op("applyFilters", applyFilters(Start))

ClearFilters ==
    /\ Active /\ Room
    /\ Op("clearFilters", clearFilters(Start))

NextFilters ==
    \/ NgOnInit
    \/ LoadTasks
    \/ \E f \in FilterForms : SetFilters(f)
    \/ ApplyFilters
    \/ ClearFilters
    \/ \E i \in DOMAIN pending, data \in ServerLists : LoadTasksNext(i, data)
    \/ \E i \in DOMAIN pending : LoadTasksError(i)

SpecFilters == Init /\ [][NextFilters]_vars

(***************************************************************************)
(* The modal and the detail view: the user opens and closes them on the    *)
(* listed tasks while filters are typed, lists are loaded and edited tasks *)
(* are saved                                                               *)
(***************************************************************************)
ViewTaskDetails(task) ==
    /\ Active
    /\ OpWith("viewTaskDetails", [NoArgs EXCEPT !.task = <<task>>],
              viewTaskDetails(Start, task))

CloseDetailsModal ==
    /\ Active
    /\ Op("closeDetailsModal", closeDetailsModal(Start))

NextModals ==
    \/ NgOnInit
    \/ \E f \in {DefaultFilters, [DefaultFilters EXCEPT !.filterStatus = "DONE"]} :
          SetFilters(f)
    \/ ApplyFilters
    \/ \E i \in DOMAIN pending, data \in ServerLists : LoadTasksNext(i, data)
    \/ \E i \in DOMAIN pending : LoadTasksError(i)
    \/ OpenCreateModal
    \/ \E task \in Range(filteredTasks) : OpenEditModal(task)
    \/ CloseModal
    \/ SaveTask
    \/ \E i \in DOMAIN pending : SaveTaskNext(i)
    \/ \E i \in DOMAIN pending : SaveTaskError(i)
    \/ \E task \in Range(filteredTasks) : ViewTaskDetails(task)
    \/ CloseDetailsModal

SpecModals == Init /\ [][NextModals]_vars

(***************************************************************************)
(* Properties                                                              *)
(***************************************************************************)
\* the empty draft, field by field
EmptyDraft ==
    [title |-> <<>>, description |-> <<>>, status |-> "TODO", priority |-> 3,
     dueDate |-> ""]

Last(q) == q[Len(q)]

\* the step put exactly one more request in flight, and it satisfies P
IssuedOne(P(_)) ==
    /\ Len(pending') = Len(pending) + 1
    /\ SubSeq(pending', 1, Len(pending)) = pending
    /\ P(Last(pending'))

\* the step answered one request that satisfies P and issued nothing
AnsweredOnly(P(_)) ==
    \E i \in DOMAIN pending :
        /\ P(pending[i])
        /\ Len(pending') = Len(pending) - 1
        /\ \A j \in DOMAIN pending' :
              [pending'[j] EXCEPT !.overtaken = FALSE]
                = [Remove(pending, i)[j] EXCEPT !.overtaken = FALSE]

\* the step answered one request that satisfies P and issued one that satisfies Q
AnsweredAndIssuedOne(P(_), Q(_)) ==
    \E i \in DOMAIN pending :
        /\ P(pending[i])
        /\ Len(pending') = Len(pending)
        /\ SubSeq(pending', 1, Len(pending) - 1) = Remove(pending, i)
        /\ Q(Last(pending'))

ListsInFlight(q) == Cardinality({i \in DOMAIN q : IsList(q[i])})

\* C1: in every reachable state loading is true when at least one request
\* issued by the controller is in flight and false when none is
C1_LoadingIffRequestInFlight == loading = (pending # <<>>)

\* the draft passes validateTask()
DraftIsValid == validateTask(This).ret = <<TRUE>>

\* C2 as stated: saveTask() on a valid draft issues exactly one request,
\* updateTask when the edit-mode flag is true and createTask when it is false
C2_SaveDispatchByFlagAlone ==
    [][(lastOp' = "saveTask" /\ DraftIsValid) =>
          IF isEditMode THEN IssuedOne(IsUpdate) ELSE IssuedOne(IsCreate)]_vars

\* C2 amended: saveTask() on a valid draft issues exactly one request, with
\* the draft as its body: updateTask for the draft's id when the edit-mode
\* flag is true and the draft carries a non-empty id, createTask otherwise
C2_SaveDispatchByFlagAndId ==
    [][(lastOp' = "saveTask" /\ DraftIsValid) =>
          IF isEditMode /\ "id" \in DOMAIN currentTask /\ currentTask.id # ""
            THEN /\ IssuedOne(IsUpdate)
                 /\ Last(pending').id = currentTask.id
                 /\ Last(pending').body = <<currentTask>>
            ELSE /\ IssuedOne(IsCreate)
                 /\ Last(pending').body = <<currentTask>>]_vars

\* saveTask() has run in edit mode on a valid draft without id and has
\* issued a create request
C2_Witness ==
    /\ lastOp = "saveTask" /\ isEditMode /\ "id" \notin DOMAIN currentTask
    /\ pending # <<>> /\ IsCreate(Last(pending))
    /\ Last(pending).body = <<currentTask>>

\* C3: when the request of saveTask() fails, error is the message of the
\* mode the save was dispatched in (update message for a failed update,
\* create message for a failed create), showModal and the draft are left
\* unchanged and no request is issued
C3_SaveFailureMessageOfDispatchedMode ==
    [][lastOp' = "saveTask.error" =>
          /\ error' = IF IsUpdate(handled'[1].request) THEN UPDATE_FAILED
                                                       ELSE CREATE_FAILED
          /\ showModal' = showModal
          /\ currentTask' = currentTask
          /\ AnsweredOnly(IsSave)]_vars

\* C4: when the request of saveTask() succeeds, exactly one list request is
\* issued, in the step that handles the response (saveTask() itself issues
\* none), the modal is closed, the draft is the empty draft and error is empty
C4_SaveSuccessReloadsAndCloses ==
    [][/\ lastOp' = "saveTask.next" =>
            /\ AnsweredAndIssuedOne(IsSave, IsList)
            /\ showModal' = FALSE
            /\ currentTask' = EmptyDraft
            /\ error' = ""
       /\ lastOp' = "saveTask" => ListsInFlight(pending') = ListsInFlight(pending)]_vars

\* a successful save response has just been handled: its reload is in flight
C4_Witness ==
    /\ lastOp = "saveTask.next"
    /\ IsSave(handled[1].request) /\ handled[1].outcome = "ok"
    /\ pending # <<>> /\ IsList(Last(pending))
    /\ ~ showModal /\ currentTask = EmptyDraft /\ error = ""

\* C5 as stated: a non-empty error message is cleared only by the
\* successful completion of an operation
C5_ErrorClearedOnlyBySuccess ==
    [][(error # "" /\ error' = "") =>
          lastOp' \in {"loadTasks.next", "saveTask.next", "deleteTask.next"}]_vars

\* C5 amended: a non-empty error message stays non-empty until loadTasks()
\* runs (called directly or as the reload of a successful save or delete),
\* which issues a list request, or closeModal() runs; a successful list
\* response does not clear it
C5_ErrorClearedOnlyByLoadOrClose ==
    [][(error # "" /\ error' = "") =>
          \/ /\ pending' # <<>> /\ IsList(Last(pending'))
             /\ ListsInFlight(pending') = ListsInFlight(pending) + 1
          \/ /\ lastOp' = "closeModal"
             /\ showModal' = FALSE /\ currentTask' = EmptyDraft]_vars

\* a list response has been handled successfully and the message of an
\* earlier failure is still there
C5_Witness ==
    /\ lastOp = "loadTasks.next" /\ handled[1].outcome = "ok"
    /\ error # ""

\* C6: loadTasks() called while a list request is in flight issues another
\* one and leaves the first in flight; every successful list response
\* replaces the task collection, also the response to a request that a
\* later one has overtaken, and nothing else changes the collection: after
\* two overlapping loads the collection is the response that resolved last
C6_LastResolvedLoadWins ==
    [][/\ lastOp' = "loadTasks" => IssuedOne(IsList)
       /\ lastOp' = "loadTasks.next" =>
            /\ tasks' = handled'[1].data
            /\ filteredTasks' = handled'[1].data
       /\ lastOp' # "loadTasks.next" =>
            /\ tasks' = tasks
            /\ filteredTasks' = filteredTasks]_vars

\* two loads overlapped, the one issued last was answered first, and now
\* the one issued first has been answered: the collection is its response
C6_Witness ==
    /\ lastOp = "loadTasks.next"
    /\ handled[1].request.overtaken
    /\ ListsInFlight(pending) = 0
    /\ tasks = handled[1].data /\ filteredTasks = handled[1].data

\* the decimal text of the priorities the API client runs pass
DecimalText == (0 :> "0") @@ (1 :> "1") @@ (12 :> "12")

FilterNames ==
    {"status", "priority", "dueDateFrom", "dueDateTo", "search", "sortBy",
     "sortDirection"}

\* the fields of the filter object that are present and not falsy
\* ('' and 0 are falsy)
TruthyFields(f) ==
    {k \in DOMAIN f : IF k = "priority" THEN f[k] # 0 ELSE f[k] # ""}

\* the fields getAllTasks sends: the truthy ones, and priority when present
SentFields(f) ==
    {k \in DOMAIN f : IF k = "priority" THEN TRUE ELSE f[k] # ""}

SameValues(params, f) ==
    \A k \in DOMAIN params :
        params[k] = IF k = "priority" THEN DecimalText[f[k]] ELSE f[k]

\* C7 as stated: the query parameters of the GET issued by getAllTasks are
\* exactly the set (truthy) fields of the filter object, same name and same
\* value, priority as its decimal text; absent and falsy fields (undefined,
\* '', 0) produce no parameter and a call without object produces none
C7_ParamsAreTruthyFields ==
    lastOp = "TaskService.getAllTasks" =>
        LET params == pending[1].params
        IN  IF filtersArg = <<>> THEN DOMAIN params = {}
            ELSE /\ DOMAIN params = TruthyFields(filtersArg[1])
                 /\ SameValues(params, filtersArg[1])

\* C7 amended: the same, except that priority produces a parameter whenever
\* it is present in the object, numeric 0 included (priority=0)
C7_ParamsAreTruthyFieldsAndAnyPriority ==
    lastOp = "TaskService.getAllTasks" =>
        LET params == pending[1].params
        IN  /\ Len(pending) = 1 /\ IsList(pending[1])
            /\ DOMAIN params \subseteq FilterNames
            /\ IF filtersArg = <<>> THEN DOMAIN params = {}
               ELSE /\ DOMAIN params = SentFields(filtersArg[1])
                    /\ SameValues(params, filtersArg[1])

\* getAllTasks was called with priority 0 and an empty status: the GET
\* carries priority=0 and no status
C7_Witness ==
    /\ lastOp = "TaskService.getAllTasks"
    /\ filtersArg # <<>>
    /\ DOMAIN filtersArg[1] = FilterNames
    /\ filtersArg[1].priority = 0 /\ filtersArg[1].status = ""
    /\ "priority" \in DOMAIN pending[1].params
    /\ pending[1].params.priority = "0"
    /\ "status" \notin DOMAIN pending[1].params

\* the Task data-model constraints
SatisfiesTaskModel(t) ==
    /\ length(t.title) >= 1 /\ length(t.title) <= 200
    /\ trim(t.title) # <<>>
    /\ trim(t.description) # <<>>
    /\ length(t.description) <= 1000
    /\ t.status \in {"TODO", "IN_PROGRESS", "DONE"}
    /\ t.priority \in 1..5

\* C8: every task body that saveTask() sends (create or update) satisfies
\* the Task data-model constraints: title of 1 to 200 characters, non-empty
\* after trimming, description non-empty after trimming and of at most 1000
\* characters, status TODO, IN_PROGRESS or DONE, priority an integer in [1,5]
C8_SentBodiesSatisfyTaskModel ==
    \A i \in DOMAIN pending :
        IsSave(pending[i]) => SatisfiesTaskModel(pending[i].body[1])

\* the five rules of validateTask, each on its own
TitlePresent(t) == trim(t.title) # <<>>
TitleFits(t) == length(t.title) <= 200
DescriptionPresent(t) == trim(t.description) # <<>>
StatusSet(t) == t.status # ""
PriorityInRange(t) == t.priority # 0 /\ t.priority >= 1 /\ t.priority <= 5

\* C9: validateTask() returns true exactly when the draft satisfies all
\* five rules (a title of 200 characters passes, one of 201 fails), and it
\* changes neither the draft nor any other state of the controller
C9_ValidateTaskDecidesTheFiveRules ==
    [][lastOp' = "validateTask" =>
          /\ ret' = << /\ TitlePresent(currentTask) /\ TitleFits(currentTask)
                       /\ DescriptionPresent(currentTask) /\ StatusSet(currentTask)
                       /\ PriorityInRange(currentTask) >>
          /\ UNCHANGED <<tasks, filteredTasks, filterStatus, filterPriority,
                         searchQuery, dueDateFrom, dueDateTo, sortBy,
                         sortDirection, showModal, isEditMode, currentTask,
                         showDetailsModal, selectedTask, loading, error,
                         lifecycle, pending>>]_vars

\* validateTask() has accepted a draft whose title has exactly 200 characters
C9_Witness ==
    /\ lastOp = "validateTask"
    /\ length(currentTask.title) = 200
    /\ ret = <<TRUE>>

\* the rules in the order of the code, with their messages
RuleMessages ==
    <<"Title is required", "Title must be less than 200 characters",
      "Description is required", "Status is required",
      "Priority must be between 1 and 5">>

Violated(t) ==
    {k \in 1..5 :
        \/ k = 1 /\ ~ TitlePresent(t)
        \/ k = 2 /\ ~ TitleFits(t)
        \/ k = 3 /\ ~ DescriptionPresent(t)
        \/ k = 4 /\ ~ StatusSet(t)
        \/ k = 5 /\ ~ PriorityInRange(t)}

\* C10: validateTask() shows no message for a valid draft and otherwise
\* exactly one, that of the first violated rule in the order title
\* required, title too long, description required, status required,
\* priority invalid
C10_ValidateTaskShowsFirstViolation ==
    lastOp = "validateTask" =>
        LET v == Violated(currentTask)
        IN  IF v = {} THEN dialogs = <<>>
            ELSE LET first == CHOOSE k \in v : \A m \in v : k <= m
                 IN  dialogs = <<[kind |-> "alert", msg |-> RuleMessages[first]]>>

\* validateTask() has rejected a draft that violates several rules and has
\* shown one message
C10_Witness ==
    /\ lastOp = "validateTask"
    /\ Cardinality(Violated(currentTask)) >= 3
    /\ 1 \notin Violated(currentTask)
    /\ Len(dialogs) = 1
    /\ ret = <<FALSE>>

AnyRequest(r) == TRUE

\* the arguments of a deleteTask(id) call, and the answer to its prompt
IdAbsent(args) == args.id = <<>>
Declined(ds) == ds # <<>> /\ ds[1].kind = "confirm" /\ ~ ds[1].answer
Accepted(ds) == ds # <<>> /\ ds[1].kind = "confirm" /\ ds[1].answer

\* C11: when the draft fails validation, saveTask() issues no request and
\* leaves loading, error, showModal, the edit-mode flag, the draft and the
\* task collection unchanged
C11_InvalidSaveChangesNothing ==
    [][(lastOp' = "saveTask" /\ ~ DraftIsValid) =>
          /\ pending' = pending
          /\ UNCHANGED <<loading, error, showModal, isEditMode, currentTask,
                         tasks, filteredTasks>>]_vars

\* saveTask() has run on an invalid draft in the open modal while nothing
\* was in flight: it has shown its message and nothing is loading
C11_Witness ==
    /\ lastOp = "saveTask" /\ ~ DraftIsValid
    /\ Len(dialogs) = 1 /\ dialogs[1].kind = "alert"
    /\ showModal /\ pending = <<>> /\ ~ loading

\* C12: deleteTask(id) issues no request and changes none of loading, error
\* and the task collection when id is absent or when the user declines the
\* prompt; when id is absent the prompt is not shown
C12_DeleteWithoutIdOrConsentDoesNothing ==
    [][lastOp' = "deleteTask" =>
          /\ IdAbsent(lastArgs') => dialogs' = <<>>
          /\ (IdAbsent(lastArgs') \/ Declined(dialogs')) =>
                /\ pending' = pending
                /\ UNCHANGED <<loading, error, tasks, filteredTasks>>]_vars

\* deleteTask('1') has run and the user has declined: the task is still
\* held, nothing is in flight and nothing is loading
C12_Witness ==
    /\ lastOp = "deleteTask" /\ lastArgs.id = <<"1">>
    /\ Declined(dialogs)
    /\ pending = <<>> /\ ~ loading /\ tasks = <<Task1>>

\* C13: a confirmed deleteTask(id) with an id issues exactly one delete
\* request, for that id; its success issues exactly one list request; its
\* failure sets error to the delete message, issues nothing and leaves the
\* task collection unchanged
C13_ConfirmedDeleteAndItsOutcomes ==
    [][/\ (lastOp' = "deleteTask" /\ ~ IdAbsent(lastArgs') /\ Accepted(dialogs')) =>
            /\ IssuedOne(IsDelete)
            /\ Last(pending').id = lastArgs'.id[1]
       /\ lastOp' = "deleteTask.next" => AnsweredAndIssuedOne(IsDelete, IsList)
       /\ lastOp' = "deleteTask.error" =>
            /\ AnsweredOnly(IsDelete)
            /\ error' = DELETE_FAILED
            /\ UNCHANGED <<tasks, filteredTasks>>]_vars

\* the delete request for task '1' has succeeded and its reload is the only
\* request in flight
C13_Witness ==
    /\ lastOp = "deleteTask.next"
    /\ IsDelete(handled[1].request) /\ handled[1].request.id = "1"
    /\ Len(pending) = 1 /\ IsList(pending[1])

\* C14: loadTasks() sets loading and empties error when called; a successful
\* response replaces tasks and filteredTasks by its data; a failed one sets
\* the load message and keeps both; after either, loading is false
C14_LoadTasksAndItsOutcomes ==
    [][/\ lastOp' \in {"ngOnInit", "loadTasks"} => loading' /\ error' = ""
       /\ lastOp' = "loadTasks.next" =>
            /\ tasks' = handled'[1].data
            /\ filteredTasks' = handled'[1].data
            /\ ~ loading'
       /\ lastOp' = "loadTasks.error" =>
            /\ error' = LOAD_FAILED
            /\ UNCHANGED <<tasks, filteredTasks>>
            /\ ~ loading']_vars

\* a list request has failed while a task was held and another request is
\* still in flight
C14_Witness ==
    /\ lastOp = "loadTasks.error" /\ error = LOAD_FAILED
    /\ tasks = <<Task1>> /\ filteredTasks = <<Task1>>
    /\ ~ loading /\ pending # <<>>

\* C18: handling a failed response issues no request; handling a successful
\* list response issues none; handling a successful save or delete response
\* issues one list request
C18_NoAutomaticRetry ==
    [][/\ lastOp' \in {"loadTasks.error", "saveTask.error", "deleteTask.error"} =>
            AnsweredOnly(AnyRequest)
       /\ lastOp' = "loadTasks.next" => AnsweredOnly(IsList)
       /\ lastOp' \in {"saveTask.next", "deleteTask.next"} =>
            AnsweredAndIssuedOne(AnyRequest, IsList)]_vars

\* a save request has failed: nothing is in flight, the message is set and
\* the modal is still open
C18_Witness ==
    /\ lastOp = "saveTask.error" /\ IsSave(handled[1].request)
    /\ pending = <<>> /\ error # "" /\ showModal

\* ids the backend has assigned
ServerIds == UNION {{t.id : t \in Range(q)} : q \in ServerLists}

\* C19: every create request in flight carries a task without id, and every
\* update request targets the id its body carries, an id of the backend
C19_ClientNeverGeneratesIds ==
    \A i \in DOMAIN pending :
        /\ IsCreate(pending[i]) => "id" \notin DOMAIN pending[i].body[1]
        /\ IsUpdate(pending[i]) =>
            /\ "id" \in DOMAIN pending[i].body[1]
            /\ pending[i].id = pending[i].body[1].id
            /\ pending[i].id \in ServerIds

\* an update and, after it, a create are in flight
C19_Witness ==
    /\ Len(pending) = 2
    /\ IsUpdate(pending[1]) /\ pending[1].id = "1"
    /\ IsCreate(pending[2]) /\ "id" \notin DOMAIN pending[2].body[1]

\* C16: ngOnDestroy leaves no request in flight, and from then on no step,
\* the arrival of a response to a request pending at that moment included,
\* changes tasks, filteredTasks, error, showModal or the draft or issues a
\* request
C16_DestroyTearsDownEveryRequest ==
    /\ [](lifecycle = "destroyed" => pending = <<>>)
    /\ [][lifecycle = "destroyed" =>
            /\ pending' = <<>>
            /\ UNCHANGED <<tasks, filteredTasks, error, showModal, currentTask>>]_vars

\* the controller was destroyed with the modal open and a list request and
\* a save request in flight; the response to the list request has arrived
C16_Witness ==
    /\ lastOp = "response.unsubscribed" /\ lifecycle = "destroyed"
    /\ Len(handled) = 1
    /\ IsSave(handled[1].request) /\ handled[1].outcome = "unsubscribed"
    /\ pending = <<>> /\ showModal /\ ~ loading

\* the query of a list request under the documented default sort order
DefaultQuery == [sortBy |-> "priority", sortDirection |-> "asc"]

\* C17: from any filter state, clearFilters() leaves the status, priority,
\* search and due-date filters empty, sortBy 'priority' and sortDirection
\* 'asc', and issues exactly one list request, whose parameters are exactly
\* sortBy=priority and sortDirection=asc
C17_ClearFiltersResetsAndReloadsOnce ==
    [][lastOp' = "clearFilters" =>
          /\ filterStatus' = "" /\ filterPriority' = <<>> /\ searchQuery' = ""
          /\ dueDateFrom' = "" /\ dueDateTo' = ""
          /\ sortBy' = "priority" /\ sortDirection' = "asc"
          /\ IssuedOne(IsList)
          /\ Last(pending').params = DefaultQuery]_vars

\* clearFilters() has run while a list request built from a panel with
\* every filter set was in flight: the request it issued carries the
\* default sort order alone
C17_Witness ==
    /\ lastOp = "clearFilters"
    /\ Len(pending) = 2
    /\ DOMAIN pending[1].params = FilterNames
    /\ pending[2].params = DefaultQuery
    /\ FilterState(This) = DefaultFilters

\* C15: when the user stops invoking operations, eventually, and from then
\* on for ever, no request is in flight and loading is false; and whenever
\* a failed response has just been handled, loading is false
C15_LoadingNeverHangs ==
    /\ ([]<><<UserStep>>_vars) \/ <>[](pending = <<>> /\ ~ loading)
    /\ [](lastOp \in {"loadTasks.error", "saveTask.error", "deleteTask.error"} =>
            ~ loading)

\* the only request in flight, a delete request, has failed: nothing is in
\* flight and nothing is loading
C15_Witness ==
    /\ lastOp = "deleteTask.error" /\ handled[1].outcome = "error"
    /\ pending = <<>> /\ ~ loading /\ error = DELETE_FAILED

\* C20: openEditModal(task) sets the edit-mode flag, shows the modal and
\* makes the draft equal to the task without touching the list; a change of
\* a draft field changes neither tasks nor filteredTasks, so the task in
\* the list keeps its fields until a list response replaces the collection
C20_EditDraftIsACopy ==
    [][/\ lastOp' = "openEditModal" =>
            /\ isEditMode' /\ showModal'
            /\ currentTask' = lastArgs'.task[1]
            /\ UNCHANGED <<tasks, filteredTasks>>
       /\ lastOp' \in {"currentTask.title", "currentTask.description",
                        "currentTask.status", "currentTask.priority"} =>
            UNCHANGED <<tasks, filteredTasks>>
       /\ (tasks' # tasks \/ filteredTasks' # filteredTasks) =>
            lastOp' = "loadTasks.next"]_vars

\* the draft opened from task '1' has been edited in the modal: the draft
\* differs from the task, which the list still holds as the backend sent it
C20_Witness ==
    /\ lastOp = "currentTask.description"
    /\ isEditMode /\ showModal
    /\ "id" \in DOMAIN currentTask /\ currentTask.id = "1"
    /\ currentTask # Task1
    /\ tasks = <<Task1>> /\ filteredTasks = <<Task1>>

\* the text a sequence of characters spells
RECURSIVE Spelled(_)
Spelled(t) == IF t = <<>> THEN "" ELSE t[1] \o Spelled(Tail(t))

\* the query that has one parameter per non-empty filter field of f, with
\* the field's text (the priority one names the integer its text denotes)
QueryOfFields(f) ==
    LET text == [status |-> f.filterStatus, priority |-> Spelled(f.filterPriority),
                 search |-> f.searchQuery, dueDateFrom |-> f.dueDateFrom,
                 dueDateTo |-> f.dueDateTo, sortBy |-> f.sortBy,
                 sortDirection |-> f.sortDirection]
    IN  [k \in {n \in DOMAIN text : text[n] # ""} |-> text[k]]

\* C21: ngOnInit(), loadTasks() and applyFilters() each issue exactly one
\* list request, whose parameters are the non-empty filter fields as they
\* are when the call is made; a later change of the filter fields leaves
\* the requests in flight as they are; on init the parameters are exactly
\* sortBy=priority and sortDirection=asc
C21_ListRequestBuiltAtCallTime ==
    [][/\ lastOp' \in {"ngOnInit", "loadTasks", "applyFilters"} =>
            /\ IssuedOne(IsList)
            /\ Last(pending').params = QueryOfFields(FilterState(This))
            /\ UNCHANGED <<filterStatus, filterPriority, searchQuery, dueDateFrom,
                           dueDateTo, sortBy, sortDirection>>
       /\ lastOp' = "ngOnInit" => Last(pending').params = DefaultQuery
       /\ lastOp' = "filters" => pending' = pending]_vars

\* applyFilters() was called with every filter set (priority 1) and the
\* user has then emptied the panel: the request in flight still carries
\* the seven parameters
C21_Witness ==
    /\ lastOp = "filters" /\ FilterState(This) = DefaultFilters
    /\ Len(pending) = 1 /\ IsList(pending[1])
    /\ pending[1].params =
          [status |-> "TODO", priority |-> "1", search |-> "test",
           dueDateFrom |-> "2025-01-01", dueDateTo |-> "2025-12-31",
           sortBy |-> "title", sortDirection |-> "desc"]

\* C22: a call of an API client method puts exactly one request in flight,
\* the one its arguments determine; a response ends exactly the answered
\* request and sends nothing; when its status is an error status the
\* subscriber gets a failure with that status and no value
C22_ServiceCallsAreOneShot ==
    [][/\ lastOp' = "TaskService.call" =>
            /\ Len(pending') = Len(pending) + 1
            /\ SubSeq(pending', 1, Len(pending)) = pending
            /\ Last(pending') \in ServiceCalls
       /\ lastOp' = "TaskService.response" =>
            /\ \E i \in DOMAIN pending :
                  pending' = Remove(pending, i) /\ handled'[1].request = pending[i]
            /\ lastArgs'.status[1] >= 400 =>
                  ret' = <<[kind |-> "error", status |-> lastArgs'.status[1]]>>
            /\ lastArgs'.status[1] = 200 =>
                  ret' = <<[kind |-> "next", status |-> 200]>>]_vars

\* getTaskById('invalid-id') was answered 404: its subscriber has the
\* failure with status 404 and nothing is in flight
C22_Witness ==
    /\ lastOp = "TaskService.response" /\ lastArgs.status = <<404>>
    /\ handled[1].request = [method |-> "GET", id |-> "invalid-id", body |-> <<>>,
                              params |-> NoParams, overtaken |-> FALSE]
    /\ ret = <<[kind |-> "error", status |-> 404]>>
    /\ pending = <<>>

\* C23: closeModal() hides the modal, makes the draft the empty draft
\* (no id), empties error, and leaves the edit-mode flag, loading, the task
\* collection, the filter fields and the requests in flight unchanged
C23_CloseModalFrame ==
    [][lastOp' = "closeModal" =>
          /\ showModal' = FALSE
          /\ currentTask' = EmptyDraft /\ "id" \notin DOMAIN currentTask'
          /\ error' = ""
          /\ pending' = pending
          /\ UNCHANGED <<isEditMode, loading, tasks, filteredTasks, filterStatus,
                         filterPriority, searchQuery, dueDateFrom, dueDateTo,
                         sortBy, sortDirection>>]_vars

\* closeModal() has run on the edit modal while a request was in flight:
\* the flag is still set, loading is still true and the task is still held
C23_Witness ==
    /\ lastOp = "closeModal"
    /\ ~ showModal /\ currentTask = EmptyDraft /\ error = ""
    /\ isEditMode /\ loading /\ pending # <<>> /\ tasks = <<Task1>>

\* C26: right after a successful save or delete response has been handled,
\* the list request it issued is in flight and loading is false
C26_ReloadInFlightWhileNotLoading ==
    [][lastOp' \in {"saveTask.next", "deleteTask.next"} =>
          /\ pending' # <<>> /\ IsList(Last(pending'))
          /\ ~ loading']_vars

\* a create request has succeeded: its reload is the only request in
\* flight and loading is false
C26_Witness ==
    /\ lastOp = "saveTask.next" /\ IsCreate(handled[1].request)
    /\ Len(pending) = 1 /\ IsList(pending[1])
    /\ ~ loading

\* C27: the success callback of a list request leaves error, the modal, the
\* draft and the filter fields as they are and issues nothing, and error
\* is emptied only by a step that issues a list request or by closeModal();
\* so when, of
\* two overlapping loads, one has just failed and the other then succeeds,
\* nothing is in flight, the collection is the response and error is still
\* the load message
C27_ListSuccessKeepsError ==
    [][/\ lastOp' = "loadTasks.next" =>
            /\ error' = error
            /\ AnsweredOnly(IsList)
            /\ UNCHANGED <<showModal, isEditMode, currentTask, filterStatus,
                           filterPriority, searchQuery, dueDateFrom, dueDateTo,
                           sortBy, sortDirection>>
       /\ (lastOp = "loadTasks.error" /\ Len(pending) = 1
             /\ lastOp' = "loadTasks.next") =>
            /\ pending' = <<>>
            /\ tasks' = handled'[1].data /\ filteredTasks' = handled'[1].data
            /\ error' = LOAD_FAILED
       /\ (error # "" /\ error' = "") =>
            \/ lastOp' = "closeModal"
            \/ ListsInFlight(pending') = ListsInFlight(pending) + 1]_vars

\* of two overlapping loads the one issued last has failed and then the
\* one issued first has succeeded with a task: the message is still shown
C27_Witness ==
    /\ lastOp = "loadTasks.next" /\ handled[1].outcome = "ok"
    /\ ~ handled[1].request.overtaken
    /\ pending = <<>> /\ ~ loading
    /\ tasks = <<Task1>> /\ filteredTasks = <<Task1>>
    /\ error = LOAD_FAILED

SavesInFlight(q) == Cardinality({i \in DOMAIN q : IsSave(q[i])})

\* C28: saveTask() on a valid draft issues one more save request whatever
\* is in flight, other save requests included, and every successful save
\* response issues one more list request
C28_SavesAreNotGuarded ==
    [][/\ (lastOp' = "saveTask" /\ DraftIsValid) =>
            /\ IssuedOne(IsSave)
            /\ SavesInFlight(pending') = SavesInFlight(pending) + 1
       /\ lastOp' = "saveTask.next" =>
            /\ SavesInFlight(pending') = SavesInFlight(pending) - 1
            /\ ListsInFlight(pending') = ListsInFlight(pending) + 1]_vars

\* saveTask() has run twice on the same valid create draft: two create
\* requests with that draft are in flight
C28_Witness ==
    /\ lastOp = "saveTask"
    /\ Len(pending) = 2
    /\ IsCreate(pending[1]) /\ IsCreate(pending[2])
    /\ pending[1].body = <<currentTask>> /\ pending[2].body = <<currentTask>>

\* C29: when a successful save response finds the modal open on a draft
\* other than the one it saved, it closes that modal and makes the draft
\* the empty draft, and the newer draft is in no request: the step issues
\* the list request only
C29_StaleSaveResponseClosesNewerModal ==
    [][(/\ lastOp' = "saveTask.next"
        /\ showModal /\ currentTask # handled'[1].request.body[1]) =>
          /\ handled'[1].newer
          /\ showModal' = FALSE
          /\ currentTask' = EmptyDraft
          /\ AnsweredAndIssuedOne(IsSave, IsList)
          /\ SavesInFlight(pending') = SavesInFlight(pending) - 1]_vars

\* the response to a save has arrived while the modal was open on another
\* draft: the modal is closed and the draft is empty
C29_Witness ==
    /\ lastOp = "saveTask.next" /\ handled[1].newer
    /\ ~ showModal /\ currentTask = EmptyDraft
    /\ SavesInFlight(pending) = 0

\* the number of positions of the list whose task has the status
CountOf(list, status) == Cardinality({i \in DOMAIN list : list[i].status = status})

\* C24: tasks and filteredTasks always hold the same collection; so
\* getTaskCountByStatus(s) returns the number of held tasks of status s,
\* and when every held task is TODO, IN_PROGRESS or DONE the counts of the
\* three add up to the size of the collection
C24_CountsAreOverTheHeldTasks ==
    /\ tasks = filteredTasks
    /\ lastOp = "getTaskCountByStatus" =>
            ret = <<CountOf(tasks, lastArgs.arg[1])>>
    /\ (\A i \in DOMAIN tasks : tasks[i].status \in TaskStatus) =>
            /\ getTaskCountByStatus(This, "TODO").ret[1]
                 + getTaskCountByStatus(This, "IN_PROGRESS").ret[1]
                 + getTaskCountByStatus(This, "DONE").ret[1] = Len(tasks)
            /\ mockTasks \in {tasks, filteredTasks} =>
                    \A status \in TaskStatus :
                        getTaskCountByStatus(This, status).ret[1] = 1

\* the three tasks of distinct statuses are held and the template has
\* asked for the count of DONE: it is 1
C24_Witness ==
    /\ lastOp = "getTaskCountByStatus" /\ lastArgs.arg = <<"DONE">>
    /\ tasks = mockTasks /\ filteredTasks = mockTasks
    /\ ret = <<1>>

\* the whole seconds from the instant past to the clock, rounded down
SecondsSince(past) == (now - past) \div 1000

\* C25: for an instant d whole seconds in the past getTimeAgo returns
\* 'Just now' when d < 60 (the future included), the whole minutes and
\* 'm ago' when 60 <= d < 3600, the whole hours and 'h ago' when
\* 3600 <= d < 86400, the whole days and 'd ago' when 86400 <= d < 604800,
\* and the date of the instant when d >= 604800
C25_TimeAgoThresholds ==
    (lastOp = "getTimeAgo" /\ lastArgs.arg[1] # <<>>) =>
        LET past == lastArgs.arg[1][1]
            d == SecondsSince(past)
        IN  /\ d < 60 => ret = <<"Just now">>
            /\ (60 <= d /\ d < 3600) => ret = <<NumberText(d \div 60) \o "m ago">>
            /\ (3600 <= d /\ d < 86400) => ret = <<NumberText(d \div 3600) \o "h ago">>
            /\ (86400 <= d /\ d < 604800) => ret = <<NumberText(d \div 86400) \o "d ago">>
            /\ d >= 604800 => ret = <<toLocaleDateString(past)>>
            /\ d = 300 => ret = <<"5m ago">>

\* getTimeAgo has run on an instant one second short of seven days ago
C25_Witness ==
    /\ lastOp = "getTimeAgo" /\ lastArgs.arg[1] # <<>>
    /\ SecondsSince(lastArgs.arg[1][1]) = 604799
    /\ now - lastArgs.arg[1][1] = 604799999
    /\ ret = <<"6d ago">>

\* C30: the five modal and detail-view operations issue no request and
\* leave tasks, filteredTasks, loading and the filter fields unchanged;
\* viewTaskDetails and closeDetailsModal also leave error, showModal, the
\* edit-mode flag and the draft unchanged; and in every state the detail
\* view is shown exactly when a task is selected
C30_ModalOperationsAreLocal ==
    /\ [](showDetailsModal <=> selectedTask # <<>>)
    /\ [][/\ lastOp' \in {"openCreateModal", "openEditModal", "closeModal",
                          "viewTaskDetails", "closeDetailsModal"} =>
                /\ pending' = pending
                /\ UNCHANGED <<tasks, filteredTasks, loading, filterStatus,
                               filterPriority, searchQuery, dueDateFrom, dueDateTo,
                               sortBy, sortDirection>>
          /\ lastOp' \in {"viewTaskDetails", "closeDetailsModal"} =>
                UNCHANGED <<error, showModal, isEditMode, currentTask>>
          /\ lastOp' = "viewTaskDetails" =>
                showDetailsModal' /\ selectedTask' = lastArgs'.task
          /\ lastOp' = "closeDetailsModal" =>
                ~ showDetailsModal' /\ selectedTask' = <<>>]_vars

\* the detail view has been opened and closed over the edit modal, which
\* still shows the message of a failed update while a request is in flight
C30_Witness ==
    /\ lastOp = "closeDetailsModal"
    /\ ~ showDetailsModal /\ selectedTask = <<>>
    /\ showModal /\ isEditMode /\ error = UPDATE_FAILED
    /\ loading /\ pending # <<>> /\ filterStatus = "DONE"

====
